---- MODULE Spec2Model ----
(***************************************************************************)
(* GenericLlmRequest (cpp/include/tensorrt_llm/batch_manager/llmRequest.h) *)
(* as a state machine: one request object, its lifecycle state, its        *)
(* per-beam token and log-prob vectors, the chunked-context cursor and the *)
(* streaming position, driven by the calls of its public interface.        *)
(*                                                                         *)
(* Conventions.  C++ vectors are sequences; the C++ index i is the TLA+    *)
(* index i + 1, so beam b of the code is beam b + 1 here and token         *)
(* position p (0-based, as in mMaxSentTokenPos) is element p + 1.          *)
(* std::optional<T> is a sequence of length 0 (nullopt) or 1.              *)
(* SizeType is a signed 32-bit integer; every value of the model stays far *)
(* from its range, so no wrap-around is modelled.  A negative SizeType     *)
(* handed to std::vector::resize converts to a size_t beyond max_size()    *)
(* and resize throws std::length_error before it changes the vector.       *)
(***************************************************************************)
EXTENDS Integers, Sequences, FiniteSets, TLC

VARIABLES
    beamWidth,                \* mSamplingConfig.beamWidth
    mReturnLogProbs,
    inputTokens,              \* the prompt handed to the constructor
    mPromptLen,
    mOrigPromptLen,
    mMaxNewTokens,
    mState,
    mSeqSlot,
    mTokens,
    mMaxSentTokenPos,
    mContextChunkSize,
    mContextCurrentPosition,
    mLogProbs,
    mCumLogProbs,
    lastOp,                   \* the call that produced this state, and how it ended
    callsLeft,                \* calls the callers still make, when limited
    delivered,                \* <<beam, position>> pairs handed to the client so far
    resent,                   \* TRUE once a pair was handed to the client a second time
    everChunked,              \* TRUE once setContextChunkSize has assigned a chunk size
    assignedSize,             \* the size last handed to setContextChunkSize in this context phase
    firstAdvance,             \* the assigned size under which this phase's first advance ran
    advances,                 \* calls of moveToNextContextChunk that returned, where counted
    draftTokens,              \* the draft tokens handed to the constructor, when any
    mDraftTokens,             \* the vector the shared_ptr points to; nullopt is a null pointer
    mDraftLogits,
    mPromptEmbeddingTable,
    mPromptVocabSize,
    mLoraWeights,
    mTasks,                   \* WorkerPool: the queue of enqueued tasks
    workers,                  \* WorkerPool: what each worker thread is doing
    executed,                 \* how often each task has been run
    futures,                  \* the shared state of each task's promise and future
    returnVal,                \* the variables the void tasks of the test assign
    voidReturn,               \* TRUE in TEST(WorkerPool, voidReturn), FALSE in TEST(WorkerPool, basic)
    enqueued,                 \* the number of tasks the test has enqueued
    results                   \* what the test's calls of get() have returned, in order

cfgVars   == <<beamWidth, mReturnLogProbs, inputTokens, mOrigPromptLen>>
tokVars   == <<mPromptLen, mMaxNewTokens, mTokens>>
lpVars    == <<mLogProbs, mCumLogProbs>>
chunkVars == <<mContextChunkSize, mContextCurrentPosition>>
lifeVars  == <<mState, mSeqSlot>>
sentVars  == <<mMaxSentTokenPos>>
clientVars == <<delivered, resent>>
histVars  == <<everChunked, assignedSize, firstAdvance, advances>>
draftVars == <<draftTokens, mDraftTokens, mDraftLogits>>
attachVars == <<mPromptEmbeddingTable, mPromptVocabSize, mLoraWeights>>
poolVars  == <<mTasks, workers, executed, futures, returnVal, voidReturn, enqueued, results>>

vars == <<cfgVars, tokVars, lpVars, chunkVars, lifeVars, sentVars, clientVars, histVars,
          draftVars, attachVars, poolVars, lastOp, callsLeft>>

----------------------------------------------------------------------------
(* Bounds of the model *)

\* No beam grows beyond MaxLen tokens.
MaxLen == 4
\* The prompt given at construction has between 1 and MaxPrompt tokens.
MaxPrompt == 2

\* A reselection (setGeneratedTokens) hands in at most MaxGen tokens per beam.
MaxGen == 2
\* SpecCalls follows the request over MaxCalls calls.
MaxCalls == 3
\* The test of the worker pool enqueues MaxTasks tasks.
MaxTasks == 3

(* Input domains *)
OneTokenId   == {1}
TokenIds     == {1, 2}
BeamWidths   == {1, 2}
BudgetChoice == {3}
SeqSlots     == {0}

----------------------------------------------------------------------------
(* LlmRequestState_t *)
REQUEST_STATE_UNKNOWN                == 0
REQUEST_STATE_CONTEXT_INIT           == 1
REQUEST_STATE_GENERATION_IN_PROGRESS == 2
REQUEST_STATE_GENERATION_COMPLETE    == 3

nullopt == <<>>
Some(x) == <<x>>
has_value(o) == Len(o) > 0
value(o) == o[1]

Min(a, b) == IF a <= b THEN a ELSE b
Max(a, b) == IF a >= b THEN a ELSE b

Beams == 1..beamWidth

\* callsLeft is <<>> when the callers are not limited, <<n>> when n calls are left.
NoLimit == <<>>

\* The call `op` has run to its end (a return or a throw).
Did(op) ==
    /\ callsLeft # <<0>>
    /\ callsLeft' = IF callsLeft = NoLimit THEN NoLimit ELSE <<callsLeft[1] - 1>>
    /\ lastOp' = op

\* std::abort of a failed assert: the process ends, no call follows.
Aborted(op) ==
    /\ callsLeft # <<0>>
    /\ callsLeft' = <<0>>
    /\ lastOp' = op

\* Sequences over S of length lo..hi.
SeqsBetween(S, lo, hi) == UNION {[1..n -> S] : n \in lo..hi}

\* std::vector<T>::resize(n) for n >= 0: truncates, or appends value-initialised
\* (zero) elements.
Resize(v, n) ==
    IF n <= Len(v) THEN SubSeq(v, 1, n)
    ELSE v \o [i \in 1..(n - Len(v)) |-> 0]

\* resize(n) with n < 0 throws std::length_error.
ResizeThrows(n) == n < 0

----------------------------------------------------------------------------
(* Queries *)

getNumTokens(beam) == Len(mTokens[beam])

RECURSIVE MaxOver(_, _)
MaxOver(f, n) == IF n = 0 THEN 0 ELSE Max(MaxOver(f, n - 1), Len(f[n]))

getMaxBeamNumTokens == MaxOver(mTokens, beamWidth)

getMaxNumGeneratedTokens == getMaxBeamNumTokens - mPromptLen

isContextInitState == mState = REQUEST_STATE_CONTEXT_INIT

isGenerationInProgessState == mState = REQUEST_STATE_GENERATION_IN_PROGRESS

isFullContextRequest == isContextInitState /\ ~has_value(mContextChunkSize)

getContextCurrentPosition == mContextCurrentPosition

getContextRemainingLength == mPromptLen - getContextCurrentPosition

----------------------------------------------------------------------------
(* WorkerPool (tensorrt_llm/runtime/workerPool.h) and its test.  The pool is
   a queue of tasks and numWorkers threads; each thread takes the task at the
   front of the queue, runs it and makes the task's future ready with what it
   returned.  A task is its number, 1..MaxTasks, in the order of the calls of
   enqueue. *)

\* WorkerPool pool(2);
NumWorkers == 2

Workers == 1..NumWorkers
Tasks == 1..MaxTasks

\* What task t returns (basic) or assigns to its returnVal (voidReturn).
TaskValue(t) == 10000 + t

\* What the future of task t holds once ready: the value the task returned,
\* and nothing (0) for a void task.
TaskResult(t) == IF voidReturn THEN 0 ELSE TaskValue(t)

waiting == [pc |-> "wait", task |-> 0]

\* No pool exists: the state of the pool's variables beside a request.
NoPool ==
    /\ mTasks = <<>>
    /\ workers = <<>>
    /\ executed = <<>>
    /\ futures = <<>>
    /\ returnVal = <<>>
    /\ voidReturn = FALSE
    /\ enqueued = 0
    /\ results = <<>>

\* WorkerPool(numWorkers): an empty queue and numWorkers waiting threads.
WorkerPool(numWorkers) ==
    /\ mTasks = <<>>
    /\ workers = [w \in 1..numWorkers |-> waiting]

\* pool.enqueue(fn): the task is put at the back of the queue and its future
\* returned.
enqueue(t) == mTasks' = Append(mTasks, t)

\* Mutant: the task taken stays in the queue.
worker_take_rest_notPopped == mTasks

\* mTasks.pop(), after the task at the front was taken.
worker_take_rest == Tail(mTasks)

\* A waiting worker takes the task at the front of the queue.
worker_take(w) ==
    /\ workers[w].pc = "wait"
    /\ mTasks # <<>>
    /\ workers' = [workers EXCEPT ![w] = [pc |-> "run", task |-> Head(mTasks)]]
    /\ mTasks' = worker_take_rest
    /\ UNCHANGED <<executed, futures, returnVal, voidReturn, enqueued, results>>

\* The worker runs its task: a void task of the test assigns its returnVal.
worker_run(w) ==
    /\ workers[w].pc = "run"
    /\ LET t == workers[w].task IN
           /\ executed' = [executed EXCEPT ![t] = @ + 1]
           /\ returnVal' = IF voidReturn THEN [returnVal EXCEPT ![t] = TaskValue(t)]
                                         ELSE returnVal
    /\ workers' = [workers EXCEPT ![w].pc = "set"]
    /\ UNCHANGED <<mTasks, futures, voidReturn, enqueued, results>>

\* The worker makes the future of its task ready and waits for the next task.
worker_set(w) ==
    /\ workers[w].pc = "set"
    /\ futures' = [futures EXCEPT ![workers[w].task] = Some(TaskResult(workers[w].task))]
    /\ workers' = [workers EXCEPT ![w] = waiting]
    /\ UNCHANGED <<mTasks, executed, returnVal, voidReturn, enqueued, results>>

worker(w) == worker_take(w) \/ worker_run(w) \/ worker_set(w)

\* The test enqueues its tasks one after another.
test_enqueue ==
    /\ enqueued < MaxTasks
    /\ enqueue(enqueued + 1)
    /\ enqueued' = enqueued + 1
    /\ UNCHANGED <<workers, executed, futures, returnVal, voidReturn, results>>

\* Then it calls get() on the futures, in the order of the tasks; get()
\* returns once the future is ready.
test_get ==
    /\ enqueued = MaxTasks
    /\ Len(results) < MaxTasks
    /\ has_value(futures[Len(results) + 1])
    /\ results' = Append(results, value(futures[Len(results) + 1]))
    /\ UNCHANGED <<mTasks, workers, executed, futures, returnVal, voidReturn, enqueued>>

test == test_enqueue \/ test_get

----------------------------------------------------------------------------
(* Construction *)

\* Mutant: only the first beam receives the prompt.
BeamTokens_firstOnly(n, v) == [b \in 1..n |-> IF b = 1 THEN v ELSE <<>>]

\* BeamTokens(n, v): the vector of n copies of v.
BeamTokens(n, v) == [b \in 1..n |-> v]

\* Mutant: draft logits are accepted without draft tokens.
GenericLlmRequest_throws_noDraftCheck(table, vocabSize, drafts, logits) ==
    \/ (has_value(table) /\ ~has_value(vocabSize))
    \/ (~has_value(table) /\ has_value(vocabSize))

\* Mutant: a vocabulary size is accepted without a prompt table.
GenericLlmRequest_throws_tableOnly(table, vocabSize, drafts, logits) ==
    \/ (has_value(table) /\ ~has_value(vocabSize))
    \/ (has_value(logits) /\ ~has_value(drafts))

\* The two checks of the constructor's body; either throws std::runtime_error.
\* The arguments are optionals; draftTokens_ is an optional shared_ptr.
GenericLlmRequest_throws(promptEmbeddingTable, promptVocabSize, draftTokens_, draftLogits) ==
    \/ (has_value(promptEmbeddingTable) /\ ~has_value(promptVocabSize))
    \/ (~has_value(promptEmbeddingTable) /\ has_value(promptVocabSize))
    \/ (has_value(draftLogits) /\ ~has_value(draftTokens_))

\* The members as the constructor's initialiser list and body set them.
GenericLlmRequest(maxNewTokens, inputTokens_, beamWidth_, promptEmbeddingTable, promptVocabSize, loraWeights, returnLogProbs, draftTokens_, draftLogits) ==
    /\ beamWidth = beamWidth_
    /\ mReturnLogProbs = returnLogProbs
    /\ inputTokens = inputTokens_
    /\ draftTokens = draftTokens_
    /\ mPromptLen = Len(inputTokens_)
    /\ mOrigPromptLen = Len(inputTokens_)
    /\ mMaxNewTokens = maxNewTokens
    /\ mState = REQUEST_STATE_CONTEXT_INIT
    /\ mSeqSlot = -1
    /\ mPromptEmbeddingTable = promptEmbeddingTable
    /\ mPromptVocabSize = promptVocabSize
    /\ mLoraWeights = loraWeights
    /\ mContextChunkSize = nullopt
    /\ mContextCurrentPosition = 0
    /\ mLogProbs = [b \in 1..beamWidth_ |-> <<>>]
    /\ mCumLogProbs = [b \in 1..beamWidth_ |-> 0]
    /\ mDraftTokens = IF has_value(draftTokens_) THEN value(draftTokens_) ELSE Some(<<>>)
    /\ mDraftLogits = draftLogits
    /\ mMaxSentTokenPos = Len(inputTokens_) - 1
    /\ mTokens = BeamTokens(beamWidth_, inputTokens_)

\* Nothing has been delivered, assigned or advanced on a new request.
NoHistory ==
    /\ delivered = {}
    /\ resent = FALSE
    /\ everChunked = FALSE
    /\ assignedSize = nullopt
    /\ firstAdvance = nullopt
    /\ advances = 0

\* The request the constructor leaves, for a prompt over the token ids `ids`
\* and the default (absent) attachments and draft arguments.
Construct(ids) ==
    /\ \E bw \in BeamWidths, r \in BOOLEAN, toks \in SeqsBetween(ids, 1, MaxPrompt),
          m \in BudgetChoice :
           GenericLlmRequest(m, toks, bw, nullopt, nullopt, nullopt, r, nullopt, nullopt)
    /\ lastOp = "construct"
    /\ NoHistory
    /\ NoPool

Unbounded == callsLeft = NoLimit

----------------------------------------------------------------------------
(* Token bookkeeping *)

\* Mutant: the token is put in front of the stored tokens.
push_back_front(v, x) == <<x>> \o v

\* std::vector<T>::push_back(x)
push_back(v, x) == Append(v, x)

addNewToken(token, beam) ==
    /\ Len(mTokens[beam]) < MaxLen
    /\ mTokens' = [mTokens EXCEPT ![beam] = push_back(@, token)]
    /\ Did("addNewToken")
    /\ UNCHANGED <<poolVars, draftVars, attachVars, cfgVars, mPromptLen, mMaxNewTokens, lpVars, chunkVars, lifeVars,
                   sentVars, clientVars, histVars>>

\* The loop of addNewTokens over the first n entries of beamTokens.
addNewTokens_loop(beamTokens, n) ==
    [b \in Beams |-> IF b <= n THEN push_back(mTokens[b], beamTokens[b]) ELSE mTokens[b]]

\* assert(beamWidth == beamTokens.size()) is code only in a build without
\* NDEBUG, where a failed assert aborts.  In a build with NDEBUG the loop runs
\* over beamTokens.size() entries: a shorter vector is appended to the first
\* beams, and past the last beam mTokens.at(beam) throws std::out_of_range
\* after every beam has received its token.
addNewTokens(beamTokens) ==
    /\ \A b \in Beams : Len(mTokens[b]) < MaxLen
    /\ IF Len(beamTokens) = beamWidth
       THEN /\ mTokens' = addNewTokens_loop(beamTokens, beamWidth)
            /\ Did("addNewTokens")
       ELSE \/ /\ mTokens' = mTokens
               /\ Aborted("addNewTokens aborts")
            \/ /\ mTokens' = addNewTokens_loop(beamTokens, Len(beamTokens))
               /\ IF Len(beamTokens) > beamWidth
                  THEN Did("addNewTokens throws")
                  ELSE Did("addNewTokens")
    /\ UNCHANGED <<poolVars, draftVars, attachVars, cfgVars, mPromptLen, mMaxNewTokens, lpVars, chunkVars, lifeVars,
                   sentVars, clientVars, histVars>>

\* generatedBeamTokens has one token vector per beam.
setGeneratedTokens(generatedBeamTokens) ==
    /\ \A b \in Beams : mPromptLen + Len(generatedBeamTokens[b]) <= MaxLen
    /\ mTokens' = [b \in Beams |-> Resize(mTokens[b], mPromptLen) \o generatedBeamTokens[b]]
    /\ Did("setGeneratedTokens")
    /\ UNCHANGED <<poolVars, draftVars, attachVars, cfgVars, mPromptLen, mMaxNewTokens, lpVars, chunkVars, lifeVars,
                   sentVars, clientVars, histVars>>

----------------------------------------------------------------------------
(* pause *)

\* Mutant: the new prompt length is the maximum input length, whatever the
\* number of tokens the request holds.
pause_newPromptLen_noMin(maxInputLen) == maxInputLen

\* SizeType newPromptLen = std::min(maxInputLen, mPromptLen + getMaxNumGeneratedTokens());
pause_newPromptLen(maxInputLen) == Min(maxInputLen, mPromptLen + getMaxNumGeneratedTokens)

\* logProb.resize(newPromptLen - mPromptLen);
pause_logProbLen(newPromptLen) == newPromptLen - mPromptLen

\* Mutant: pause resumes the request straight into generation.
pause_reset_toGeneration ==
    /\ mState' = REQUEST_STATE_GENERATION_IN_PROGRESS
    /\ mContextCurrentPosition' = 0
    /\ mContextChunkSize' = nullopt
    /\ mSeqSlot' = -1

\* Mutant: pause leaves the request in the state Unknown.
pause_reset_toUnknown ==
    /\ mState' = REQUEST_STATE_UNKNOWN
    /\ mContextCurrentPosition' = 0
    /\ mContextChunkSize' = nullopt
    /\ mSeqSlot' = -1

\* Mutant: pause leaves the chunk size as it is.
pause_reset_keepsChunkSize ==
    /\ mState' = REQUEST_STATE_CONTEXT_INIT
    /\ mContextCurrentPosition' = 0
    /\ UNCHANGED mContextChunkSize
    /\ mSeqSlot' = -1

\* The four assignments that end pause on both paths.
pause_reset ==
    /\ mState' = REQUEST_STATE_CONTEXT_INIT
    /\ mContextCurrentPosition' = 0
    /\ mContextChunkSize' = nullopt
    /\ mSeqSlot' = -1

\* Mutant: pause also moves the streaming position to the end of the prompt.
pause_frame_movesSent ==
    /\ mMaxSentTokenPos' = mPromptLen' - 1
    /\ UNCHANGED <<poolVars, draftVars, attachVars, cfgVars, mCumLogProbs, clientVars>>

\* Mutant: pause takes the new prompt length as the original one.
pause_frame_resetsOrigPromptLen ==
    /\ mOrigPromptLen' = mPromptLen'
    /\ UNCHANGED <<poolVars, draftVars, attachVars, beamWidth, mReturnLogProbs, inputTokens, mCumLogProbs,
                   sentVars, clientVars>>

\* What pause assigns nowhere.
pause_frame == UNCHANGED <<poolVars, draftVars, attachVars, cfgVars, mCumLogProbs, sentVars, clientVars>>

\* Mutant: the multi-beam path forgets to clear the log-probs.
pause_multiBeam_keepLogProbs ==
    /\ mTokens' = [b \in Beams |-> Resize(mTokens[b], mPromptLen)]
    /\ UNCHANGED <<mLogProbs, mPromptLen, mMaxNewTokens>>
    /\ pause_reset
    /\ Did("pause")

\* beamWidth > 1: every beam back to mPromptLen tokens, log-probs cleared when
\* the request returns them.
pause_multiBeam ==
    /\ mTokens' = [b \in Beams |-> Resize(mTokens[b], mPromptLen)]
    /\ mLogProbs' = IF mReturnLogProbs THEN [b \in Beams |-> <<>>] ELSE mLogProbs
    /\ UNCHANGED <<mPromptLen, mMaxNewTokens>>
    /\ pause_reset
    /\ Did("pause")

\* Mutant: the budget is left as it is.
pause_newMaxNewTokens_unchanged(newPromptLen) == mMaxNewTokens

\* Mutant: the length moved into the prompt is added to the budget.
pause_newMaxNewTokens_added(newPromptLen) == mMaxNewTokens + (newPromptLen - mPromptLen)

\* mMaxNewTokens -= (newPromptLen - mPromptLen);
pause_newMaxNewTokens(newPromptLen) == mMaxNewTokens - (newPromptLen - mPromptLen)

\* beamWidth == 1.  The loop body runs for the one beam: the token vector is
\* resized first, the log-prob vector second, and a throwing resize leaves
\* the function with what was assigned before it.
pause_singleBeam(maxInputLen) ==
    LET newPromptLen == pause_newPromptLen(maxInputLen) IN
    IF ResizeThrows(newPromptLen)
    THEN /\ Did("pause throws")
         /\ UNCHANGED <<tokVars, mLogProbs, chunkVars, lifeVars>>
    ELSE IF mReturnLogProbs /\ ResizeThrows(pause_logProbLen(newPromptLen))
    THEN /\ mTokens' = [b \in Beams |-> IF b = 1 THEN Resize(mTokens[b], newPromptLen)
                                                 ELSE mTokens[b]]
         /\ Did("pause throws")
         /\ UNCHANGED <<mPromptLen, mMaxNewTokens, mLogProbs, chunkVars, lifeVars>>
    ELSE /\ mTokens' = [b \in Beams |-> Resize(mTokens[b], newPromptLen)]
         /\ mLogProbs' = IF mReturnLogProbs
                         THEN [b \in Beams |->
                                  Resize(mLogProbs[b], pause_logProbLen(newPromptLen))]
                         ELSE mLogProbs
         /\ mMaxNewTokens' = pause_newMaxNewTokens(newPromptLen)
         /\ mPromptLen' = newPromptLen
         /\ pause_reset
         /\ Did("pause")

\* Mutant: the single-beam path is taken whatever the beam width.
pause_alwaysSingleBeam(maxInputLen) ==
    /\ pause_singleBeam(maxInputLen)
    /\ pause_frame

pause(maxInputLen) ==
    /\ IF beamWidth > 1 THEN pause_multiBeam ELSE pause_singleBeam(maxInputLen)
    /\ pause_frame

----------------------------------------------------------------------------
(* Streaming position *)

getMaxSentTokenPos == mMaxSentTokenPos

\* Mutant: the position before the one given is stored.
setMaxSentTokenPos_offByOne(pos) == pos - 1

\* mMaxSentTokenPos = pos;
setMaxSentTokenPos_stored(pos) == pos

setMaxSentTokenPos(pos) ==
    /\ mMaxSentTokenPos' = setMaxSentTokenPos_stored(pos)
    /\ Did("setMaxSentTokenPos")
    /\ UNCHANGED <<poolVars, draftVars, attachVars, cfgVars, tokVars, lpVars, chunkVars, lifeVars, clientVars, histVars>>

----------------------------------------------------------------------------
(* Log-probs *)

\* Mutant: the values are stored one entry further on.
setLogProbs_offset_oneBeyond == mPromptLen - mOrigPromptLen + 1

\* mLogProbs.at(beam).resize(mPromptLen - mOrigPromptLen);
setLogProbs_offset == mPromptLen - mOrigPromptLen

setLogProbs(logProbs, beam) ==
    /\ IF ResizeThrows(setLogProbs_offset)
       THEN /\ Did("setLogProbs throws")
            /\ UNCHANGED mLogProbs
       ELSE /\ mLogProbs' = [mLogProbs EXCEPT
                                ![beam] = Resize(@, setLogProbs_offset) \o logProbs]
            /\ Did("setLogProbs")
    /\ UNCHANGED <<poolVars, draftVars, attachVars, cfgVars, tokVars, mCumLogProbs, chunkVars, lifeVars, sentVars,
                   clientVars, histVars>>

setCumLogProb(cumLogProb, beam) ==
    /\ mCumLogProbs' = [mCumLogProbs EXCEPT ![beam] = cumLogProb]
    /\ Did("setCumLogProb")
    /\ UNCHANGED <<poolVars, draftVars, attachVars, cfgVars, tokVars, mLogProbs, chunkVars, lifeVars, sentVars,
                   clientVars, histVars>>

----------------------------------------------------------------------------------------------------------------------------------------
(* Chunked-context cursor.  A failed TLLM_CHECK_WITH_INFO throws before the
   function has assigned anything. *)

\* TLLM_CHECK_WITH_INFO(isContextInitState() && mContextChunkSize, ...)
getContextChunkSize_throws == ~(isContextInitState /\ has_value(mContextChunkSize))

\* return mContextChunkSize.value();
getContextChunkSize == value(mContextChunkSize)

\* One call of the const function getContextChunkSize: it returns or throws.
call_getContextChunkSize ==
    /\ IF getContextChunkSize_throws
       THEN Did("getContextChunkSize throws")
       ELSE Did("getContextChunkSize")
    /\ UNCHANGED <<poolVars, draftVars, attachVars, cfgVars, tokVars, lpVars, chunkVars, lifeVars, sentVars, clientVars,
                   histVars>>

\* Mutant: the position plays no part in the test.
isLastContextChunk_ignoresPosition ==
    \/ isFullContextRequest
    \/ (isContextInitState /\ getContextChunkSize = mPromptLen)

\* Mutant: the comparison is evaluated before the other operands.
isLastContextChunk_evaluatesChunkSize_first == TRUE

\* || and && are evaluated left to right: isLastContextChunk calls
\* getContextChunkSize() when isFullContextRequest() is false and
\* isContextInitState() is true.
isLastContextChunk_evaluatesChunkSize == ~isFullContextRequest /\ isContextInitState

\* && is evaluated left to right: getContextChunkSize() is called only when
\* the request is in ContextInit and is no full-context request, so its check
\* holds.
isLastContextChunk ==
    \/ isFullContextRequest
    \/ (isContextInitState /\ getContextCurrentPosition + getContextChunkSize = mPromptLen)

\* Mutant: only a request with no chunk size is at its first chunk.
isFirstContextChunk_unchunkedOnly == isFullContextRequest

isFirstContextChunk == isFullContextRequest \/ getContextCurrentPosition = 0

\* Mutant: the size is stored as given, not capped to the remainder.
setContextChunkSize_uncapped(size) == size

\* mContextChunkSize = std::min(size, getContextRemainingLength());
setContextChunkSize_stored(size) == Min(size, getContextRemainingLength)

\* Mutant: a failed call clears the chunk size.
setContextChunkSize_failed_clears == mContextChunkSize' = nullopt

\* One of the two checks of setContextChunkSize has failed.
setContextChunkSize_failed == UNCHANGED mContextChunkSize

setContextChunkSize(size) ==
    /\ IF isContextInitState /\ size >= 0
       THEN /\ mContextChunkSize' = Some(setContextChunkSize_stored(size))
            /\ Did("setContextChunkSize")
       ELSE /\ setContextChunkSize_failed
            /\ Did("setContextChunkSize throws")
    /\ UNCHANGED <<poolVars, draftVars, attachVars, cfgVars, tokVars, lpVars, mContextCurrentPosition, lifeVars,
                   sentVars, clientVars>>

\* Mutant: the advance is one token, whatever the chunk size.
moveToNextContextChunk_advanced_byOne == mContextCurrentPosition + 1

\* mContextCurrentPosition += getContextChunkSize();
moveToNextContextChunk_advanced == mContextCurrentPosition + getContextChunkSize

\* Mutant: the advance clears the chunk size.
moveToNextContextChunk_sizeAfter_cleared == nullopt

\* setContextChunkSize(0), called with the position already advanced.
moveToNextContextChunk_sizeAfter ==
    Some(Min(0, mPromptLen - moveToNextContextChunk_advanced))

\* Mutant: the full-context step is taken from any position.
moveToNextContextChunk_fullStepAllowed_anywhere == TRUE

\* TLLM_CHECK_WITH_INFO(mContextCurrentPosition == 0, "Full context out of bounds.");
moveToNextContextChunk_fullStepAllowed == mContextCurrentPosition = 0

moveToNextContextChunk ==
    /\ IF ~isContextInitState
       THEN /\ Did("moveToNextContextChunk throws")
            /\ UNCHANGED chunkVars
       ELSE IF has_value(mContextChunkSize)
       THEN /\ mContextCurrentPosition' = moveToNextContextChunk_advanced
            /\ mContextChunkSize' = moveToNextContextChunk_sizeAfter
            /\ Did("moveToNextContextChunk")
       ELSE IF moveToNextContextChunk_fullStepAllowed
       THEN /\ mContextCurrentPosition' = mPromptLen
            /\ UNCHANGED mContextChunkSize
            /\ Did("moveToNextContextChunk")
       ELSE /\ Did("moveToNextContextChunk throws")
            /\ UNCHANGED chunkVars
    /\ UNCHANGED <<poolVars, draftVars, attachVars, cfgVars, tokVars, lpVars, lifeVars, sentVars, clientVars>>

----------------------------------------------------------------------------
(* Draft tokens and attachments.  A tensor is its memory type and the buffer
   that holds it: buffer 0 is the one the caller supplied, and every copy is
   a new buffer. *)

kGPU == "kGPU"
kCPU == "kCPU"

Tensor(memoryType, buffer) == [memoryType |-> memoryType, buffer |-> buffer]

getMemoryType(tensor) == tensor.memoryType

\* manager.copyFrom(tensor, memoryType): a new buffer of the given memory
\* type with the tensor's content.
copyFrom(tensor, memoryType) == Tensor(memoryType, tensor.buffer + 1)

\* return mDraftTokens && mDraftTokens->size() > 0;
hasDraftTokens == has_value(mDraftTokens) /\ Len(value(mDraftTokens)) > 0

\* draftTokens_ is a shared_ptr: nullopt (null) or Some(vector).
setDraftTokens(draftTokens_) ==
    /\ mDraftTokens' = draftTokens_
    /\ Did("setDraftTokens")
    /\ UNCHANGED <<poolVars, draftTokens, mDraftLogits, attachVars, cfgVars, tokVars, lpVars, chunkVars,
                   lifeVars, sentVars, clientVars, histVars>>

setDraftLogits(draftLogits) ==
    /\ mDraftLogits' = draftLogits
    /\ Did("setDraftLogits")
    /\ UNCHANGED <<poolVars, draftTokens, mDraftTokens, attachVars, cfgVars, tokVars, lpVars, chunkVars,
                   lifeVars, sentVars, clientVars, histVars>>

\* Mutant: a table already on the device is copied again.
movePromptEmbeddingTableToGpu_returnsEarly_whenAbsent == ~has_value(mPromptEmbeddingTable)

\* if (!mPromptEmbeddingTable.has_value()
\*     || mPromptEmbeddingTable.value()->getMemoryType() == runtime::MemoryType::kGPU)
movePromptEmbeddingTableToGpu_returnsEarly ==
    \/ ~has_value(mPromptEmbeddingTable)
    \/ getMemoryType(value(mPromptEmbeddingTable)) = kGPU

movePromptEmbeddingTableToGpu ==
    /\ IF movePromptEmbeddingTableToGpu_returnsEarly
       THEN UNCHANGED mPromptEmbeddingTable
       ELSE mPromptEmbeddingTable' = Some(copyFrom(value(mPromptEmbeddingTable), kGPU))
    /\ Did("movePromptEmbeddingTableToGpu")
    /\ UNCHANGED <<poolVars, draftVars, mPromptVocabSize, mLoraWeights, cfgVars, tokVars, lpVars,
                   chunkVars, lifeVars, sentVars, clientVars, histVars>>

\* if (!mLoraWeights.has_value() || mLoraWeights.value()->getMemoryType() == kGPU)
moveLoraWeightsToGpu_returnsEarly ==
    \/ ~has_value(mLoraWeights)
    \/ getMemoryType(value(mLoraWeights)) = kGPU

moveLoraWeightsToGpu ==
    /\ IF moveLoraWeightsToGpu_returnsEarly
       THEN UNCHANGED mLoraWeights
       ELSE mLoraWeights' = Some(copyFrom(value(mLoraWeights), kGPU))
    /\ Did("moveLoraWeightsToGpu")
    /\ UNCHANGED <<poolVars, draftVars, mPromptEmbeddingTable, mPromptVocabSize, cfgVars, tokVars,
                   lpVars, chunkVars, lifeVars, sentVars, clientVars, histVars>>

----------------------------------------------------------------------------
(* The callers.  mState and mSeqSlot are public members the scheduler
   assigns; the result-streaming layer reads the tokens and the streaming
   position and writes the position back. *)

\* ContextInit -> GenerationInProgress, once the cursor has consumed the prompt.
beginGeneration ==
    /\ isContextInitState
    /\ getContextRemainingLength = 0
    /\ mState' = REQUEST_STATE_GENERATION_IN_PROGRESS
    /\ Did("beginGeneration")
    /\ UNCHANGED <<poolVars, draftVars, attachVars, cfgVars, tokVars, lpVars, chunkVars, mSeqSlot, sentVars, clientVars, histVars>>

\* GenerationInProgress -> GenerationComplete, on a stop condition.
completeGeneration ==
    /\ isGenerationInProgessState
    /\ mState' = REQUEST_STATE_GENERATION_COMPLETE
    /\ Did("completeGeneration")
    /\ UNCHANGED <<poolVars, draftVars, attachVars, cfgVars, tokVars, lpVars, chunkVars, mSeqSlot, sentVars, clientVars, histVars>>

assignSeqSlot(slot) ==
    /\ mSeqSlot = -1
    /\ mSeqSlot' = slot
    /\ Did("assignSeqSlot")
    /\ UNCHANGED <<poolVars, draftVars, attachVars, cfgVars, tokVars, lpVars, chunkVars, mState, sentVars, clientVars, histVars>>

\* The positions of beam b above the streaming position.
unsent(b) == {p \in 0..(Len(mTokens[b]) - 1) : p > getMaxSentTokenPos}

\* One flush: every beam's positions above getMaxSentTokenPos() go to the
\* client, then setMaxSentTokenPos(highest position delivered).
streamFlush ==
    LET batch == {<<b, p>> \in Beams \X (0..(MaxLen - 1)) : p \in unsent(b)} IN
    /\ batch # {}
    /\ delivered' = delivered \cup batch
    /\ resent' = (resent \/ batch \cap delivered # {})
    /\ mMaxSentTokenPos' = setMaxSentTokenPos_stored(getMaxBeamNumTokens - 1)
    /\ Did("streamFlush")
    /\ UNCHANGED <<poolVars, draftVars, attachVars, cfgVars, tokVars, lpVars, chunkVars, lifeVars, histVars>>

----------------------------------------------------------------------------
(* The history of the chunked context: what was assigned and advanced since
   construction and within the present context phase.  A context phase runs
   from construction or from a pause that returned up to the next pause that
   returns.  The handlers above leave the history variables to the
   specification that calls them: SpecChunks keeps the history, the other
   specifications leave it as construction set it. *)

\* setContextChunkSize(size) was called.
history_setContextChunkSize(size) ==
    IF lastOp' = "setContextChunkSize"
    THEN /\ everChunked' = TRUE
         /\ assignedSize' = Some(size)
         /\ UNCHANGED <<firstAdvance, advances>>
    ELSE UNCHANGED histVars

\* moveToNextContextChunk was called; with a chunk size set it has called
\* setContextChunkSize(0) itself.
history_moveToNextContextChunk ==
    IF lastOp' = "moveToNextContextChunk"
    THEN /\ firstAdvance' = IF has_value(firstAdvance) THEN firstAdvance
                                                       ELSE Some(assignedSize)
         /\ assignedSize' = IF has_value(mContextChunkSize) THEN Some(0) ELSE assignedSize
         /\ UNCHANGED <<everChunked, advances>>
    ELSE UNCHANGED histVars

\* pause was called.
history_pause ==
    IF lastOp' = "pause"
    THEN /\ assignedSize' = nullopt
         /\ firstAdvance' = nullopt
         /\ UNCHANGED <<everChunked, advances>>
    ELSE UNCHANGED histVars

\* moveToNextContextChunk was called: a call that returned is counted.
history_advances ==
    IF lastOp' = "moveToNextContextChunk"
    THEN /\ advances' = advances + 1
         /\ UNCHANGED <<everChunked, assignedSize, firstAdvance>>
    ELSE UNCHANGED histVars

----------------------------------------------------------------------------
(* Specifications *)

\* Token vectors a reselection hands in.
GeneratedSuffixes(ids) == SeqsBetween(ids, 0, MaxGen)

PauseLens == 1..MaxLen
ChunkSizes == -1..MaxPrompt

TokenCalls(ids) ==
    \/ \E t \in ids, b \in Beams : addNewToken(t, b)
    \/ \E v \in [Beams -> ids] : addNewTokens(v)
    \/ \E g \in [Beams -> GeneratedSuffixes(ids)] : setGeneratedTokens(g)

\* Spec: the request under every call of its token, pause, cursor and
\* lifecycle interface, with any argument.  Token values play no part in
\* what these calls do, so one token id is drawn.
Init == Construct(OneTokenId) /\ Unbounded

Next ==
    \/ TokenCalls(OneTokenId)
    \/ \E m \in PauseLens : pause(m) /\ UNCHANGED histVars
    \/ \E s \in ChunkSizes : setContextChunkSize(s) /\ UNCHANGED histVars
    \/ moveToNextContextChunk /\ UNCHANGED histVars
    \/ beginGeneration
    \/ completeGeneration
    \/ \E s \in SeqSlots : assignSeqSlot(s)

Spec == Init /\ [][Next]_vars

\* SpecTokens: the token calls and pause, with two token ids, so that the
\* content of the beams is observable, and addNewTokens also with a vector
\* whose length is not the beam width.
InitTokens == Construct(TokenIds) /\ Unbounded

\* Vectors for addNewTokens with fewer or more entries than beams.
MismatchedVectors == {v \in SeqsBetween(OneTokenId, 0, beamWidth + 1) : Len(v) # beamWidth}

NextTokens ==
    \/ TokenCalls(TokenIds)
    \/ \E v \in MismatchedVectors : addNewTokens(v)
    \/ \E m \in PauseLens : pause(m) /\ UNCHANGED histVars

SpecTokens == InitTokens /\ [][NextTokens]_vars

\* SpecLogProbs: generation steps, setLogProbs with any values for any beam,
\* and pause.
LogProbValues == {1, 2}

NextLogProbs ==
    \/ \E t \in OneTokenId, b \in Beams : addNewToken(t, b)
    \/ \E v \in [Beams -> OneTokenId] : addNewTokens(v)
    \/ \E l \in SeqsBetween(LogProbValues, 0, MaxGen), b \in Beams : setLogProbs(l, b)
    \/ \E m \in PauseLens : pause(m) /\ UNCHANGED histVars

SpecLogProbs == Init /\ [][NextLogProbs]_vars

\* SpecStream: generation steps, reselections and pauses, with the
\* result-streaming layer flushing at any point between them.
NextStream ==
    \/ TokenCalls(OneTokenId)
    \/ \E m \in PauseLens : pause(m) /\ UNCHANGED histVars
    \/ streamFlush

SpecStream == Init /\ [][NextStream]_vars

\* SpecBudget: the token calls and pause of a memory manager that never asks
\* for a prompt shorter than the current one (maxInputLen >= mPromptLen), on
\* requests whose budget the generation can exhaust and exceed.
Budgets == {1, 3}

InitBudget ==
    /\ \E bw \in BeamWidths, r \in BOOLEAN, toks \in SeqsBetween(OneTokenId, 1, MaxPrompt),
          m \in Budgets :
           GenericLlmRequest(m, toks, bw, nullopt, nullopt, nullopt, r, nullopt, nullopt)
    /\ lastOp = "construct"
    /\ NoHistory
    /\ NoPool
    /\ Unbounded

NextBudget ==
    \/ TokenCalls(OneTokenId)
    \/ \E m \in PauseLens : m >= mPromptLen /\ pause(m) /\ UNCHANGED histVars

SpecBudget == InitBudget /\ [][NextBudget]_vars

\* SpecPrompt: the token calls, with two token ids, and pause of a memory
\* manager that never asks for a prompt shorter than the original one
\* (maxInputLen >= mOrigPromptLen).
NextPrompt ==
    \/ TokenCalls(TokenIds)
    \/ \E m \in PauseLens : m >= mOrigPromptLen /\ pause(m) /\ UNCHANGED histVars

SpecPrompt == InitTokens /\ [][NextPrompt]_vars

\* SpecCursor: one context phase, without pause, of a scheduler that assigns
\* a chunk size >= 1 before every moveToNextContextChunk and stops advancing
\* when nothing of the prompt remains.  The scheduler runs in every
\* iteration: an assignment or an advance that it can make is made.
PositiveChunkSizes == 1..MaxPrompt

assignChunk ==
    /\ getContextRemainingLength > 0
    /\ \E s \in PositiveChunkSizes : setContextChunkSize(s)
    /\ UNCHANGED histVars

advanceChunk ==
    /\ getContextRemainingLength > 0
    /\ lastOp = "setContextChunkSize"
    /\ moveToNextContextChunk
    /\ history_advances

NextCursor ==
    \/ assignChunk
    \/ advanceChunk

SpecCursor ==
    /\ InitTokens
    /\ [][NextCursor]_vars
    /\ WF_vars(assignChunk)
    /\ WF_vars(advanceChunk)

\* SpecPool: the two tests of the worker pool, the test thread and the
\* worker threads running as the operating system schedules them: a thread
\* that can take a step is not left out for ever.  No request takes part;
\* the request's variables are those of a new request and stay so.
requestVars ==
    <<cfgVars, tokVars, lpVars, chunkVars, lifeVars, sentVars, clientVars, histVars,
      draftVars, attachVars, lastOp, callsLeft>>

InitPool ==
    /\ WorkerPool(NumWorkers)
    /\ executed = [t \in Tasks |-> 0]
    /\ futures = [t \in Tasks |-> nullopt]
    /\ returnVal = [t \in Tasks |-> 0]
    /\ voidReturn \in BOOLEAN
    /\ enqueued = 0
    /\ results = <<>>
    /\ GenericLlmRequest(1, <<1>>, 1, nullopt, nullopt, nullopt, FALSE, nullopt, nullopt)
    /\ lastOp = "construct"
    /\ NoHistory
    /\ Unbounded

NextPool ==
    \/ test /\ UNCHANGED requestVars
    \/ \E w \in Workers : worker(w) /\ UNCHANGED requestVars

SpecPool ==
    /\ InitPool
    /\ [][NextPool]_vars
    /\ WF_vars(test /\ UNCHANGED requestVars)
    /\ \A w \in Workers : WF_vars(worker(w) /\ UNCHANGED requestVars)

\* SpecCalls: every mutating call of the request, one call after another
\* with any argument.
SentPositions == -1..(MaxLen - 1)

NextCalls ==
    \/ TokenCalls(OneTokenId)
    \/ \E m \in PauseLens : pause(m) /\ UNCHANGED histVars
    \/ \E l \in {<<>>, <<1>>}, b \in Beams : setLogProbs(l, b)
    \/ \E s \in ChunkSizes : setContextChunkSize(s) /\ UNCHANGED histVars
    \/ moveToNextContextChunk /\ UNCHANGED histVars
    \/ \E pos \in SentPositions : setMaxSentTokenPos(pos)
    \/ \E ptr \in {Some(<<1>>)} : setDraftTokens(ptr)
    \/ \E logits \in {Some(Tensor(kGPU, 0))} : setDraftLogits(logits)
    \/ movePromptEmbeddingTableToGpu
    \/ moveLoraWeightsToGpu

InitCalls == Construct(OneTokenId) /\ callsLeft = <<MaxCalls>>

SpecCalls == InitCalls /\ [][NextCalls]_vars

\* SpecGeneration: a request taken through its context in one step and into
\* generation, with the calls made on it while it generates: generation
\* steps, log-probs, cumulative log-probs and the streaming position, with
\* any argument.
StepLogProbs     == {<<>>, <<1>>}
CumLogProbValues == {1}

NextGeneration ==
    \/ moveToNextContextChunk /\ UNCHANGED histVars
    \/ beginGeneration
    \/ \E t \in OneTokenId, b \in Beams : addNewToken(t, b)
    \/ \E v \in [Beams -> OneTokenId] : addNewTokens(v)
    \/ \E l \in StepLogProbs, b \in Beams : setLogProbs(l, b)
    \/ \E c \in CumLogProbValues, b \in Beams : setCumLogProb(c, b)
    \/ \E pos \in SentPositions : setMaxSentTokenPos(pos)

SpecGeneration == Init /\ [][NextGeneration]_vars

\* SpecAttach: construction with any draft and attachment arguments, then the
\* draft setters and the residency migrations, with the request taken
\* through its context, generating and paused in between.  A construction
\* that throws leaves no request: no call follows it.
SuppliedTensors == {Tensor(kCPU, 0), Tensor(kGPU, 0)}
OptionalTensors == {nullopt} \cup {Some(t) : t \in SuppliedTensors}
OptionalLogits  == {nullopt, Some(Tensor(kGPU, 0))}
OptionalVocabSizes == {nullopt, Some(1)}
\* A shared_ptr to a vector of draft tokens: null, or a vector.
DraftTokenPtrs == {nullopt, Some(<<>>), Some(<<1>>)}
OptionalDraftTokens == {nullopt} \cup {Some(ptr) : ptr \in DraftTokenPtrs}

InitAttach ==
    /\ \E bw \in BeamWidths, toks \in SeqsBetween(OneTokenId, 1, MaxPrompt), m \in BudgetChoice,
          table \in OptionalTensors, vocab \in OptionalVocabSizes, lora \in OptionalTensors,
          drafts \in OptionalDraftTokens, logits \in OptionalLogits :
           /\ GenericLlmRequest(m, toks, bw, table, vocab, lora, FALSE, drafts, logits)
           /\ IF GenericLlmRequest_throws(table, vocab, drafts, logits)
              THEN lastOp = "construct throws" /\ callsLeft = <<0>>
              ELSE lastOp = "construct" /\ Unbounded
    /\ NoHistory
    /\ NoPool

NextAttach ==
    \/ \E ptr \in DraftTokenPtrs : setDraftTokens(ptr)
    \/ \E logits \in OptionalLogits : setDraftLogits(logits)
    \/ movePromptEmbeddingTableToGpu
    \/ moveLoraWeightsToGpu
    \/ moveToNextContextChunk /\ UNCHANGED histVars
    \/ beginGeneration
    \/ \E v \in [Beams -> OneTokenId] : addNewTokens(v)
    \/ \E m \in PauseLens : pause(m) /\ UNCHANGED histVars

SpecAttach == InitAttach /\ [][NextAttach]_vars

\* SpecChunks: the context phases of a request, with their history: the
\* cursor calls with any argument in any state, generation steps of all beams,
\* the lifecycle transitions and pause.
NextChunks ==
    \/ \E s \in ChunkSizes : setContextChunkSize(s) /\ history_setContextChunkSize(s)
    \/ moveToNextContextChunk /\ history_moveToNextContextChunk
    \/ call_getContextChunkSize
    \/ \E v \in [Beams -> OneTokenId] : addNewTokens(v)
    \/ beginGeneration
    \/ completeGeneration
    \/ \E m \in PauseLens : pause(m) /\ history_pause

SpecChunks == Init /\ [][NextChunks]_vars

----------------------------------------------------------------------------
(* Properties under Spec *)

PauseReturned == lastOp = "pause"
PauseThrew    == lastOp = "pause throws"

\* C1: in every reachable state every beam's token sequence has at least
\* mPromptLen tokens.
C1_TokensCoverPrompt == \A b \in Beams : Len(mTokens[b]) >= mPromptLen

\* C5: whatever the beam width and the state it is called in, a call of pause
\* leaves state ContextInit, cursor position 0, no chunk size and no
\* execution slot.
C5_PauseResets ==
    (PauseReturned \/ PauseThrew) =>
        /\ mState = REQUEST_STATE_CONTEXT_INIT
        /\ mContextCurrentPosition = 0
        /\ mContextChunkSize = nullopt
        /\ mSeqSlot = -1

\* C6 as claimed: once the state is GenerationComplete no call, pause
\* included, changes it.
C6_CompleteIsTerminal ==
    [][mState = REQUEST_STATE_GENERATION_COMPLETE
          => mState' = REQUEST_STATE_GENERATION_COMPLETE]_vars

\* C6 amended: once the state is GenerationComplete, the only call that changes
\* it is a pause that returns, and that pause sets it to ContextInit.
C6_CompleteLeftOnlyByPause ==
    [][(mState = REQUEST_STATE_GENERATION_COMPLETE
           /\ mState' # REQUEST_STATE_GENERATION_COMPLETE)
          => (lastOp' = "pause" /\ mState' = REQUEST_STATE_CONTEXT_INIT)]_vars

\* A completed request on which a call other than pause has acted.
C6_Witness ==
    /\ mState = REQUEST_STATE_GENERATION_COMPLETE
    /\ lastOp \in {"addNewToken", "setGeneratedTokens", "setContextChunkSize throws",
                   "moveToNextContextChunk throws", "assignSeqSlot"}

\* C7: in every reachable state 0 <= cursor position <= mPromptLen.
C7_CursorInPrompt ==
    /\ 0 <= mContextCurrentPosition
    /\ mContextCurrentPosition <= mPromptLen

\* The cursor at the end of a prompt that a pause has lengthened, reached by
\* chunked advances.
C7_Witness ==
    /\ mPromptLen > mOrigPromptLen
    /\ has_value(mContextChunkSize)
    /\ mContextCurrentPosition = mPromptLen
    /\ lastOp = "moveToNextContextChunk"

\* C26: in every reachable state mState is ContextInit, GenerationInProgress
\* or GenerationComplete; Unknown is never reached.
C26_StateIsOfLifecycle ==
    mState \in {REQUEST_STATE_CONTEXT_INIT, REQUEST_STATE_GENERATION_IN_PROGRESS,
                REQUEST_STATE_GENERATION_COMPLETE}

\* A completed request that pause has taken back to ContextInit.
C26_Witness ==
    /\ PauseReturned
    /\ mState = REQUEST_STATE_CONTEXT_INIT
    /\ mPromptLen > mOrigPromptLen
    /\ mSeqSlot = -1

\* C32: with the scheduler entering GenerationInProgress only when
\* getContextRemainingLength() is 0, the cursor is at mPromptLen in every state
\* in GenerationInProgress, from the transition until the next pause.
C32_GeneratingAtEndOfPrompt ==
    isGenerationInProgessState => mContextCurrentPosition = mPromptLen

\* A generating request with tokens generated, whose prompt a pause had
\* lengthened and whose context was then taken in chunks.
C32_Witness ==
    /\ isGenerationInProgessState
    /\ mPromptLen > mOrigPromptLen
    /\ has_value(mContextChunkSize)
    /\ getMaxNumGeneratedTokens > 0

\* C33: mPromptLen + mMaxNewTokens has in every reachable state the value
\* it had at construction: no call changes it, pause with any beam width
\* and any maxInputLen included.
C33_LengthPlusBudget ==
    [][mPromptLen' + mMaxNewTokens' = mPromptLen + mMaxNewTokens]_vars

\* A single-beam pause has moved generated tokens into the prompt.
C33_Witness ==
    /\ PauseReturned
    /\ beamWidth = 1
    /\ mPromptLen > mOrigPromptLen
    /\ Len(mTokens[1]) = mPromptLen

\* C34: for beamWidth > 1, mPromptLen = mOrigPromptLen in every reachable
\* state and no call changes mMaxNewTokens, whatever pauses are made.
C34_MultiBeamLengths ==
    /\ [](beamWidth > 1 => mPromptLen = mOrigPromptLen)
    /\ [][beamWidth > 1 => mMaxNewTokens' = mMaxNewTokens]_vars

\* A multi-beam request that a pause has taken back to its prompt.
C34_Witness ==
    /\ PauseReturned
    /\ beamWidth > 1
    /\ \A b \in Beams : Len(mTokens[b]) = mPromptLen
    /\ mPromptLen = MaxPrompt

\* C36: in every reachable state in which a chunk size is set,
\* 0 <= chunk size and cursor position + chunk size <= mPromptLen.
C36_ChunkInPrompt ==
    has_value(mContextChunkSize) =>
        /\ 0 <= value(mContextChunkSize)
        /\ mContextCurrentPosition + value(mContextChunkSize) <= mPromptLen

\* A chunk assigned after an advance, on a prompt that a pause has changed.
C36_Witness ==
    /\ lastOp = "setContextChunkSize"
    /\ value(mContextChunkSize) > 0
    /\ mContextCurrentPosition > 0
    /\ mPromptLen # mOrigPromptLen

\* C39: in every reachable state in which isLastContextChunk() calls
\* getContextChunkSize(), the request is in ContextInit with a chunk size
\* set, so the call does not throw; isFirstContextChunk() does not call it.
C39_NoexceptQueries ==
    isLastContextChunk_evaluatesChunkSize =>
        /\ isContextInitState
        /\ has_value(mContextChunkSize)
        /\ ~getContextChunkSize_throws

\* A paused request in ContextInit with a chunk size assigned again, and one
\* chunk of the prompt left.
C39_Witness ==
    /\ isLastContextChunk_evaluatesChunkSize
    /\ isLastContextChunk
    /\ mContextCurrentPosition > 0
    /\ mPromptLen > mOrigPromptLen

----------------------------------------------------------------------------
(* Properties under SpecTokens *)

\* C3: for beamWidth == 1, pause(maxInputLen) on prompt length P with G
\* generated tokens and budget M leaves mPromptLen = min(maxInputLen, P + G),
\* mMaxNewTokens = M - (min(maxInputLen, P + G) - P), and exactly that many
\* tokens, a prefix of the tokens before the call.
C3_SingleBeamPause ==
    [][\A maxInputLen \in PauseLens :
          (beamWidth = 1 /\ pause(maxInputLen)) =>
              LET newLen == Min(maxInputLen, mPromptLen + getMaxNumGeneratedTokens) IN
              /\ mPromptLen' = newLen
              /\ mMaxNewTokens' = mMaxNewTokens - (newLen - mPromptLen)
              /\ Len(mTokens'[1]) = newLen
              /\ mTokens'[1] = SubSeq(mTokens[1], 1, newLen)]_vars

\* C21: setGeneratedTokens(g) leaves every beam b as its first mPromptLen
\* tokens, unchanged, followed by exactly g[b]; what the beam held beyond the
\* prompt is gone.
C21_SetGeneratedTokens ==
    [][\A g \in [Beams -> GeneratedSuffixes(TokenIds)] :
          setGeneratedTokens(g) =>
              \A b \in Beams :
                  /\ Len(mTokens[b]) >= mPromptLen
                  /\ mTokens'[b] = SubSeq(mTokens[b], 1, mPromptLen) \o g[b]]_vars

\* C22: addNewTokens(v) with one entry per beam lengthens every beam by one,
\* with v[b] last on beam b; addNewToken(t, b) does so for beam b alone; the
\* tokens stored before are kept as they were.
C22_Appends ==
    [][/\ \A v \in [Beams -> TokenIds] :
              addNewTokens(v) => \A b \in Beams : mTokens'[b] = mTokens[b] \o <<v[b]>>
       /\ \A t \in TokenIds, b \in Beams :
              addNewToken(t, b) => mTokens' = [mTokens EXCEPT ![b] = mTokens[b] \o <<t>>]]_vars

\* Two beams that hold different tokens, the second longer than the first,
\* after addNewTokens.
C22_Witness ==
    /\ lastOp = "addNewTokens"
    /\ beamWidth = 2
    /\ Len(mTokens[2]) > Len(mTokens[1])
    /\ mTokens[1][Len(mTokens[1])] # mTokens[2][Len(mTokens[2])]
    /\ mTokens[1][1] # mTokens[1][Len(mTokens[1])]

\* C23: addNewTokens with a vector whose length is not the beam width fails
\* fatally and appends to no beam.
C23_MismatchIsFatal ==
    [][\A v \in MismatchedVectors :
          addNewTokens(v) => (lastOp' = "addNewTokens aborts" /\ mTokens' = mTokens)]_vars

\* C25: a new request with a prompt of L tokens and beam width B holds B
\* token sequences, each the prompt; mMaxSentTokenPos is L - 1, the state
\* ContextInit, the context position 0, no chunk size is set, no slot is
\* assigned and mPromptLen = mOrigPromptLen = L.
C25_NewRequest ==
    lastOp = "construct" =>
        /\ DOMAIN mTokens = 1..beamWidth
        /\ \A b \in Beams : mTokens[b] = inputTokens
        /\ mMaxSentTokenPos = Len(inputTokens) - 1
        /\ mState = REQUEST_STATE_CONTEXT_INIT
        /\ mContextCurrentPosition = 0
        /\ mContextChunkSize = nullopt
        /\ mSeqSlot = -1
        /\ mPromptLen = Len(inputTokens)
        /\ mOrigPromptLen = Len(inputTokens)

\* A new request with two beams and a prompt of two different tokens.
C25_Witness ==
    /\ lastOp = "construct"
    /\ beamWidth = 2
    /\ Len(inputTokens) = 2
    /\ inputTokens[1] # inputTokens[2]

----------------------------------------------------------------------------
(* Properties under SpecLogProbs *)

\* Beam b holds one log-prob, stored through setLogProbs (not a zero a resize
\* filled in), for every token it holds beyond the original prompt.
LogProbsStored(b) ==
    /\ Len(mLogProbs[b]) = Len(mTokens[b]) - mOrigPromptLen
    /\ \A i \in 1..Len(mLogProbs[b]) : mLogProbs[b][i] \in LogProbValues

\* C2: for a single-beam request that returns log-probs and has one stored per
\* generated token, a pause, the first or a later one, leaves the log-prob
\* sequence with mPromptLen - mOrigPromptLen entries, entry i still the
\* log-prob stored for position mOrigPromptLen + i.
C2_LogProbsSurvivePause ==
    [][(beamWidth = 1 /\ mReturnLogProbs /\ LogProbsStored(1) /\ lastOp' = "pause") =>
          /\ Len(mLogProbs'[1]) = mPromptLen' - mOrigPromptLen
          /\ mLogProbs'[1] = SubSeq(mLogProbs[1], 1, mPromptLen' - mOrigPromptLen)]_vars

\* C4 as claimed: for beamWidth > 1 a pause leaves every beam with exactly
\* mOrigPromptLen tokens and no log-probs, whatever the request's settings.
C4_MultiBeamPauseDiscardsAll ==
    (beamWidth > 1 /\ PauseReturned) =>
        \A b \in Beams : Len(mTokens[b]) = mOrigPromptLen /\ mLogProbs[b] = <<>>

\* C4 amended: for beamWidth > 1 a pause leaves every beam with exactly
\* mOrigPromptLen tokens; it empties every beam's log-probs when the request
\* returns log-probs (returnLogProbs) and leaves them as they were otherwise.
C4_MultiBeamPauseDiscards ==
    [][(beamWidth > 1 /\ lastOp' = "pause") =>
          \A b \in Beams :
              /\ Len(mTokens'[b]) = mOrigPromptLen
              /\ mLogProbs'[b] = IF mReturnLogProbs THEN <<>> ELSE mLogProbs[b]]_vars

\* A multi-beam request paused with log-probs stored although it does not
\* return them.
C4_Witness ==
    /\ beamWidth > 1
    /\ PauseReturned
    /\ ~mReturnLogProbs
    /\ \E b \in Beams : mLogProbs[b] # <<>>

----------------------------------------------------------------------------
(* Properties under SpecStream *)

SentCoversPrompt == mMaxSentTokenPos >= mPromptLen - 1

\* Every token the request holds is at or below the streaming position.
AllSent == mMaxSentTokenPos >= getMaxBeamNumTokens - 1

\* C8 as claimed: in every reachable state mMaxSentTokenPos >= mPromptLen - 1.
C8_SentCoversPrompt == SentCoversPrompt

\* C8 amended: mMaxSentTokenPos >= mPromptLen - 1 holds at construction and
\* is kept by every call of a request whose streaming layer flushes as in C9,
\* except by a pause called while the request holds tokens above
\* mMaxSentTokenPos: pause does not move the streaming position, and such a
\* pause can take those unsent positions into the prompt.
C8_SentCoversPromptWhileFlushed ==
    /\ SentCoversPrompt
    /\ [][(SentCoversPrompt /\ ~(lastOp' \in {"pause", "pause throws"} /\ ~AllSent))
             => SentCoversPrompt']_vars

\* A pause that has lengthened the prompt of a request whose tokens had all
\* been sent.
C8_Witness ==
    /\ PauseReturned
    /\ mPromptLen > mOrigPromptLen
    /\ SentCoversPrompt

\* C9: with a streaming layer that delivers only the positions above
\* getMaxSentTokenPos() and then stores the highest position it delivered, no
\* position of a beam is delivered twice, whatever the generation steps,
\* pauses and resumes in between.
C9_NoPositionResent == ~resent

\* A flush after a pause that lengthened the prompt, with tokens delivered
\* before and after it.
C9_Witness ==
    /\ lastOp = "streamFlush"
    /\ mPromptLen > mOrigPromptLen
    /\ \E d \in delivered : d[2] < mPromptLen
    /\ \E d \in delivered : d[2] >= mPromptLen

----------------------------------------------------------------------------
(* Properties under SpecCalls *)

\* C10: only setMaxSentTokenPos changes mMaxSentTokenPos; the token calls,
\* pause, setLogProbs and the cursor calls leave it as it is.
C10_OnlySetterMovesSent ==
    [][mMaxSentTokenPos' # mMaxSentTokenPos => lastOp' = "setMaxSentTokenPos"]_vars

\* A pause has lengthened the prompt and the streaming position is still the
\* one the constructor set.
C10_Witness ==
    /\ PauseReturned
    /\ mPromptLen > mOrigPromptLen
    /\ mMaxSentTokenPos = mOrigPromptLen - 1

\* C24: only pause changes mPromptLen, and mOrigPromptLen is in every
\* reachable state the length of the prompt given at construction.
C24_PromptLengths ==
    /\ [](mOrigPromptLen = Len(inputTokens))
    /\ [][mOrigPromptLen' = mOrigPromptLen]_vars
    /\ [][mPromptLen' # mPromptLen => lastOp' = "pause"]_vars

\* A pause has left the prompt shorter than the one given at construction.
C24_Witness ==
    /\ PauseReturned
    /\ mPromptLen < mOrigPromptLen
    /\ mOrigPromptLen = Len(inputTokens)

----------------------------------------------------------------------------
(* Properties under SpecBudget *)

\* No beam holds more generated tokens than the budget allows.
WithinBudget == getMaxNumGeneratedTokens <= mMaxNewTokens

\* C35: when every pause is called with maxInputLen >= mPromptLen, no call
\* decreases mPromptLen or increases mMaxNewTokens; and mMaxNewTokens, >= 0
\* at construction, is still >= 0 after every call made while the generated
\* tokens are within the budget.
C35_PromptGrowsBudgetShrinks ==
    /\ mMaxNewTokens >= 0
    /\ [][mPromptLen' >= mPromptLen /\ mMaxNewTokens' <= mMaxNewTokens]_vars
    /\ [][(WithinBudget /\ mMaxNewTokens >= 0) => mMaxNewTokens' >= 0]_vars

\* A pause has moved the whole budget, all of it generated, into the prompt.
C35_Witness ==
    /\ PauseReturned
    /\ mMaxNewTokens = 0
    /\ mPromptLen > mOrigPromptLen
    /\ Len(mTokens[1]) = mPromptLen

----------------------------------------------------------------------------
(* Properties under SpecPrompt *)

\* C38: when every pause is called with maxInputLen >= mOrigPromptLen, the
\* first mOrigPromptLen tokens of every beam are in every reachable state
\* the prompt given at construction.
C38_PromptKept ==
    \A b \in Beams :
        /\ Len(mTokens[b]) >= mOrigPromptLen
        /\ SubSeq(mTokens[b], 1, mOrigPromptLen) = inputTokens

\* A request with a prompt of two different tokens after a pause and a
\* reselection, holding more than its prompt.
C38_Witness ==
    /\ lastOp = "setGeneratedTokens"
    /\ Len(inputTokens) = 2
    /\ inputTokens[1] # inputTokens[2]
    /\ mPromptLen > mOrigPromptLen
    /\ \A b \in Beams : Len(mTokens[b]) > mPromptLen

----------------------------------------------------------------------------
(* Properties under SpecCursor *)

\* C37: in a context phase without pause in which a chunk size >= 1 is
\* assigned before every moveToNextContextChunk, the cursor eventually is at
\* mPromptLen, no more than mPromptLen advances are made, and an advance
\* reaches mPromptLen exactly when it is made while isLastContextChunk() holds.
C37_CursorReachesEnd ==
    /\ <>(mContextCurrentPosition = mPromptLen)
    /\ [](advances <= mPromptLen)
    /\ [][lastOp' = "moveToNextContextChunk"
            => (isLastContextChunk <=> mContextCurrentPosition' = mPromptLen')]_vars

\* The end of the prompt reached by as many advances as the prompt has
\* tokens, more than one.
C37_Witness ==
    /\ mContextCurrentPosition = mPromptLen
    /\ advances = mPromptLen
    /\ advances > 1
    /\ lastOp = "moveToNextContextChunk"

----------------------------------------------------------------------------
(* Properties under SpecPool *)

\* The test has got the result of every future.
TestDone == Len(results) = MaxTasks

----------------------------------------------------------------------------
(* Properties under SpecChunks *)

\* No chunk size has been assigned in the present context phase.
UnassignedInPhase == ~has_value(assignedSize)

\* moveToNextContextChunk was called in the step, and returned or threw.
MoveCalled == lastOp' \in {"moveToNextContextChunk", "moveToNextContextChunk throws"}

\* C11 as claimed: isFullContextRequest() returns true if and only if no chunk
\* size has been assigned by setContextChunkSize since construction.
C11_FullIffNeverChunked == isFullContextRequest <=> ~everChunked

\* C11 amended: isFullContextRequest() returns true if and only if the request
\* is in ContextInit and no chunk size has been assigned by setContextChunkSize
\* since construction or since the last pause that returned, whichever is later.
C11_FullIffUnassignedInPhase ==
    isFullContextRequest <=> (isContextInitState /\ UnassignedInPhase)

\* A request that had a chunk size assigned, was paused, and is a full-context
\* request again.
C11_Witness ==
    /\ everChunked
    /\ PauseReturned
    /\ isFullContextRequest

\* C12 as claimed: over a context phase in which chunk sizes are assigned and
\* advanced over, isLastContextChunk() returns true only while a chunk size is
\* assigned with position + chunkSize == mPromptLen, and false at every other
\* point of the phase.
C12_LastOnlyAtFinalChunk ==
    isLastContextChunk =>
        /\ has_value(mContextChunkSize)
        /\ getContextCurrentPosition + getContextChunkSize = mPromptLen

\* C12 amended: isLastContextChunk() returns true exactly at the points of
\* ContextInit where no chunk size has been assigned in the phase yet, or
\* where one is assigned and position + chunkSize == mPromptLen; these are the
\* points from which moveToNextContextChunk leaves no remainder, the one
\* after the final advance (chunk size 0, position == mPromptLen) included.
C12_LastIffNoRemainderAfter ==
    /\ isLastContextChunk <=>
           /\ isContextInitState
           /\ IF UnassignedInPhase THEN TRUE
              ELSE getContextCurrentPosition + getContextChunkSize = mPromptLen
    /\ [][lastOp' = "moveToNextContextChunk"
             => (isLastContextChunk <=> getContextRemainingLength' = 0)]_vars

\* The final chunk of a prompt processed in several chunks has been assigned.
C12_Witness ==
    /\ lastOp = "setContextChunkSize"
    /\ getContextCurrentPosition > 0
    /\ getContextChunkSize > 0
    /\ isLastContextChunk

\* The phase's first advance ran under a positive assigned chunk size.
AdvancedUnderPositiveSize ==
    /\ has_value(firstAdvance)
    /\ has_value(value(firstAdvance))
    /\ value(value(firstAdvance)) > 0

\* C13: over a context phase chunked with positive assigned sizes,
\* isFirstContextChunk() is true at every point before the phase's first
\* moveToNextContextChunk and false at every point after it.
C13_FirstUntilFirstAdvance ==
    /\ ~has_value(firstAdvance) => isFirstContextChunk
    /\ AdvancedUnderPositiveSize => ~isFirstContextChunk

\* In the middle of a chunked phase that follows a pause: the first chunk has
\* been advanced over and a part of the prompt remains.
C13_Witness ==
    /\ AdvancedUnderPositiveSize
    /\ isContextInitState
    /\ getContextRemainingLength > 0
    /\ mPromptLen > mOrigPromptLen

\* C14 as claimed: each moveToNextContextChunk performed under a positive
\* assigned chunk size decreases getContextRemainingLength() strictly, by
\* the effective chunk size, and the remaining length is never negative.
C14_PositiveAssignedSizeAdvances ==
    /\ getContextRemainingLength >= 0
    /\ [][(lastOp' = "moveToNextContextChunk"
             /\ has_value(assignedSize) /\ value(assignedSize) > 0)
            => /\ getContextRemainingLength' < getContextRemainingLength
               /\ getContextRemainingLength'
                      = getContextRemainingLength - getContextChunkSize]_vars

\* C14 amended: each moveToNextContextChunk performed with a chunk size set
\* decreases getContextRemainingLength() by exactly the effective chunk size
\* getContextChunkSize(), strictly when that size is positive; a positive
\* assigned size gives a positive effective size when a part of the prompt
\* remains, and is capped to 0 when none does.  The remaining length is never
\* negative.
C14_PositiveEffectiveSizeAdvances ==
    /\ getContextRemainingLength >= 0
    /\ [][(lastOp' = "moveToNextContextChunk" /\ has_value(mContextChunkSize))
            => /\ getContextRemainingLength'
                      = getContextRemainingLength - getContextChunkSize
               /\ getContextChunkSize > 0
                      => getContextRemainingLength' < getContextRemainingLength
               /\ (value(assignedSize) > 0 /\ getContextRemainingLength > 0)
                      => getContextChunkSize > 0
               /\ getContextRemainingLength = 0 => getContextChunkSize = 0]_vars

\* An advance over a positive chunk that has left a part of the prompt.
C14_Witness ==
    /\ lastOp = "moveToNextContextChunk"
    /\ has_value(mContextChunkSize)
    /\ getContextCurrentPosition > 0
    /\ getContextRemainingLength > 0

\* C15: setContextChunkSize(size) with size >= 0 in ContextInit sets the chunk
\* size to min(size, mPromptLen - position), which getContextChunkSize() then
\* returns, and leaves the cursor position, mPromptLen and the tokens as they
\* were.
C15_SetContextChunkSize ==
    [][\A size \in ChunkSizes :
          (isContextInitState /\ size >= 0 /\ setContextChunkSize(size)) =>
              /\ lastOp' = "setContextChunkSize"
              /\ mContextChunkSize' = Some(Min(size, mPromptLen - mContextCurrentPosition))
              /\ ~getContextChunkSize_throws'
              /\ getContextChunkSize' = Min(size, mPromptLen - mContextCurrentPosition)
              /\ UNCHANGED <<mContextCurrentPosition, mPromptLen, mTokens>>]_vars

\* A size larger than the remainder has been assigned in the middle of a
\* prompt and was capped.
C15_Witness ==
    /\ lastOp = "setContextChunkSize"
    /\ getContextCurrentPosition > 0
    /\ getContextRemainingLength > 0
    /\ value(assignedSize) > getContextChunkSize

\* C16: with a chunk size c set, moveToNextContextChunk in ContextInit sets the
\* position to position + c and the chunk size to 0, a set value: the request
\* is no full-context request afterwards.
C16_AdvanceWithChunkSize ==
    [][(isContextInitState /\ has_value(mContextChunkSize) /\ MoveCalled) =>
          /\ lastOp' = "moveToNextContextChunk"
          /\ mContextCurrentPosition' = mContextCurrentPosition + value(mContextChunkSize)
          /\ mContextChunkSize' = Some(0)
          /\ ~isFullContextRequest']_vars

\* An advance over a positive chunk has left the chunk size at 0.
C16_Witness ==
    /\ lastOp = "moveToNextContextChunk"
    /\ mContextChunkSize = Some(0)
    /\ AdvancedUnderPositiveSize
    /\ isContextInitState

\* C17: with no chunk size set, moveToNextContextChunk in ContextInit sets the
\* position to mPromptLen when the position is 0, and fails with the position
\* unchanged when it is not; a request never chunked in its phase that has
\* taken the step is at a position other than 0, so it cannot take it again.
C17_FullContextStep ==
    /\ (UnassignedInPhase /\ has_value(firstAdvance)) =>
           (mContextCurrentPosition = mPromptLen /\ mContextCurrentPosition # 0)
    /\ [][(isContextInitState /\ ~has_value(mContextChunkSize) /\ MoveCalled) =>
             IF mContextCurrentPosition = 0
             THEN /\ lastOp' = "moveToNextContextChunk"
                  /\ mContextCurrentPosition' = mPromptLen
             ELSE /\ lastOp' = "moveToNextContextChunk throws"
                  /\ mContextCurrentPosition' = mContextCurrentPosition]_vars

\* A second full-context step was tried in the same phase and failed.
C17_Witness ==
    /\ lastOp = "moveToNextContextChunk throws"
    /\ isContextInitState
    /\ UnassignedInPhase
    /\ has_value(firstAdvance)

\* What a failed chunk operation leaves as it was.
ChunkCallLeftUnchanged ==
    UNCHANGED <<mState, mContextCurrentPosition, mContextChunkSize, mTokens>>

\* C18: a chunk operation called with its precondition violated fails and
\* leaves state, position, chunk size and tokens unchanged:
\* setContextChunkSize and moveToNextContextChunk outside ContextInit,
\* setContextChunkSize with size < 0, getContextChunkSize with no chunk size
\* set or outside ContextInit.
C18_FailedChunkCalls ==
    [][/\ \A size \in ChunkSizes :
             ((~isContextInitState \/ size < 0) /\ setContextChunkSize(size)) =>
                 (lastOp' = "setContextChunkSize throws" /\ ChunkCallLeftUnchanged)
       /\ (~isContextInitState /\ MoveCalled) =>
              (lastOp' = "moveToNextContextChunk throws" /\ ChunkCallLeftUnchanged)
       /\ ((~isContextInitState \/ ~has_value(mContextChunkSize))
              /\ lastOp' \in {"getContextChunkSize", "getContextChunkSize throws"}) =>
              (lastOp' = "getContextChunkSize throws" /\ ChunkCallLeftUnchanged)]_vars

\* setContextChunkSize has failed on a generating request that holds a chunk
\* size.
C18_Witness ==
    /\ lastOp = "setContextChunkSize throws"
    /\ isGenerationInProgessState
    /\ has_value(mContextChunkSize)

----------------------------------------------------------------------------
(* Properties under SpecLogProbs, continued *)

\* C19: setLogProbs(values, beam) leaves the beam's log-probs with
\* (mPromptLen - mOrigPromptLen) + |values| entries, the values stored from
\* index mPromptLen - mOrigPromptLen on, the entries that existed below that
\* index unchanged, and every other beam's log-probs unchanged.
C19_SetLogProbsStores ==
    [][\A values \in SeqsBetween(LogProbValues, 0, MaxGen), beam \in Beams :
          setLogProbs(values, beam) =>
              LET offset == mPromptLen - mOrigPromptLen IN
              /\ lastOp' = "setLogProbs"
              /\ Len(mLogProbs'[beam]) = offset + Len(values)
              /\ \A i \in 1..Len(values) : mLogProbs'[beam][offset + i] = values[i]
              /\ \A i \in 1..Min(offset, Len(mLogProbs[beam])) :
                     mLogProbs'[beam][i] = mLogProbs[beam][i]
              /\ \A b \in Beams \ {beam} : mLogProbs'[b] = mLogProbs[b]]_vars

----------------------------------------------------------------------------
(* Properties under SpecGeneration *)

\* The calls C20 names, whether they return or throw.
GrowingCalls ==
    {"addNewToken", "addNewTokens", "setLogProbs", "setLogProbs throws",
     "setCumLogProb", "setMaxSentTokenPos"}

TokensNotShortened == \A b \in Beams : Len(mTokens'[b]) >= Len(mTokens[b])

LogProbsNotShortened == \A b \in Beams : Len(mLogProbs'[b]) >= Len(mLogProbs[b])

----------------------------------------------------------------------------
(* Properties under SpecAttach *)

\* The constructor has returned: there is a request.
Constructed == lastOp # "construct throws"

\* The state is the one the constructor was left in, by a return or a throw.
AtConstruction == lastOp \in {"construct", "construct throws"}

\* C27: in every reachable state of a request, after any calls of
\* setDraftTokens and setDraftLogits too, draft logits are present only if
\* hasDraftTokens() holds.
C27_LogitsImplyDraftTokens ==
    Constructed => (has_value(mDraftLogits) => hasDraftTokens)

\* C28: construction throws when draft logits are given and draft tokens are
\* not; with both, neither or the tokens alone (and prompt table and
\* vocabulary size given together or not at all) it returns.
C28_DraftArguments ==
    AtConstruction =>
        /\ (has_value(mDraftLogits) /\ ~has_value(draftTokens)) => lastOp = "construct throws"
        /\ ((~has_value(mDraftLogits) \/ has_value(draftTokens))
              /\ (has_value(mPromptEmbeddingTable) <=> has_value(mPromptVocabSize)))
               => lastOp = "construct"

\* A construction that threw for draft logits without draft tokens, its
\* other arguments valid.
C28_Witness ==
    /\ lastOp = "construct throws"
    /\ has_value(mDraftLogits)
    /\ ~has_value(draftTokens)
    /\ has_value(mPromptEmbeddingTable)
    /\ has_value(mPromptVocabSize)

\* C29: construction throws when exactly one of prompt table and vocabulary
\* size is given, and in every reachable state of a request, also after
\* movePromptEmbeddingTableToGpu, the table is present iff the vocabulary size is.
C29_TableIffVocabSize ==
    /\ (AtConstruction /\ (has_value(mPromptEmbeddingTable) # has_value(mPromptVocabSize)))
           => lastOp = "construct throws"
    /\ Constructed => (has_value(mPromptEmbeddingTable) <=> has_value(mPromptVocabSize))

\* A request whose prompt table has been moved to the device, with its
\* vocabulary size.
C29_Witness ==
    /\ lastOp = "movePromptEmbeddingTableToGpu"
    /\ mPromptEmbeddingTable = Some(Tensor(kGPU, 1))
    /\ has_value(mPromptVocabSize)

\* The values besides the two attachments that a migration might touch.
RequestState ==
    <<draftVars, mPromptVocabSize, cfgVars, tokVars, lpVars, chunkVars, lifeVars, sentVars>>

\* What a migration makes of an attachment: absent or on the device it is
\* the same attachment, otherwise one on the device.
Migrated(before, after) ==
    IF ~has_value(before) \/ getMemoryType(value(before)) = kGPU
    THEN after = before
    ELSE has_value(after) /\ getMemoryType(value(after)) = kGPU

\* C30: movePromptEmbeddingTableToGpu and moveLoraWeightsToGpu change nothing
\* when the attachment is absent or on the device and otherwise leave it on
\* the device; a second call in a row changes nothing; neither changes the
\* other attachment or the token, cursor or lifecycle state.
C30_Migrations ==
    [][/\ lastOp' = "movePromptEmbeddingTableToGpu" =>
              /\ Migrated(mPromptEmbeddingTable, mPromptEmbeddingTable')
              /\ lastOp = "movePromptEmbeddingTableToGpu" => UNCHANGED mPromptEmbeddingTable
              /\ UNCHANGED <<mLoraWeights, RequestState>>
       /\ lastOp' = "moveLoraWeightsToGpu" =>
              /\ Migrated(mLoraWeights, mLoraWeights')
              /\ lastOp = "moveLoraWeightsToGpu" => UNCHANGED mLoraWeights
              /\ UNCHANGED <<mPromptEmbeddingTable, RequestState>>]_vars

\* A generating request whose prompt table has been moved to the device
\* while its LoRA weights are still on the host.
C30_Witness ==
    /\ lastOp = "movePromptEmbeddingTableToGpu"
    /\ mPromptEmbeddingTable = Some(Tensor(kGPU, 1))
    /\ mLoraWeights = Some(Tensor(kCPU, 0))
    /\ mState = REQUEST_STATE_GENERATION_IN_PROGRESS
    /\ \A b \in Beams : Len(mTokens[b]) > mPromptLen

====
